---- MODULE Spec2Model ----
(***************************************************************************)
(* Verification model of the TSV translation framework (scripts/*.py).     *)
(*                                                                         *)
(* A shard file is a table: an ordered sequence of rows [key,text,tooltip]. *)
(* The three reconciliation programs are modelled on one shard each:       *)
(*   merge_tsv.py               (reference merge, SpecMerge, and           *)
(*                               SpecMergeRuns with upstream changes)      *)
(*   merge_patch_translation.py (patch fill,      SpecPatch)               *)
(*   split_loc_master.py        (master split,    SpecSplit)               *)
(* and side by side in SpecReconcile; SpecPatchRuns is the patch fill run  *)
(* more than once.  The validation of one table is SpecValidate.  The      *)
(* batches of merge_tsv.py and of split_loc_master.py over several shards  *)
(* (validation, prompt, loop, exit) are SpecMergeBatch and SpecSplitBatch, *)
(* the run of validate_tsv.py over the files of a directory SpecCheckRun,  *)
(* each with every file reduced to its kind.  SpecSync is the directory    *)
(* sync of sync_translation.py over the top-level entries of SRC and DST.  *)
(*                                                                         *)
(* Cell values are drawn from strings free of tab, quote and newline, for  *)
(* which pandas' to_csv / read_csv pair returns the table it was given;    *)
(* a file is therefore represented by the table it holds.                  *)
(***************************************************************************)
EXTENDS Integers, Sequences, FiniteSets, TLC

VARIABLES
    enFile,      \* UPSTREAM_DB/<shard>: the reference table
    trgFile,     \* TRANSLATION_DB/<shard>: the current table (may not exist)
    obsFile,     \* OBSOLETE_DIR/<shard>: the archive table (may not exist)
    patchFile,   \* PATCH_DB/<shard>: the candidate table
    masterFile,  \* SPLIT_LOC_FILE: the flat master table
    locFile,     \* SPLIT_LOC_DIR/<shard>: the split output (may not exist)
    op,          \* the program that ran last: "none", "merge", "patch", "split"
    old,         \* history: the target file as it was before the last run
    removed,     \* merge: the removed rows computed by the last run
    stats,       \* counters printed by the last run
    report,      \* kind of line printed by the last run for the shard
    wrote,       \* TRUE iff the last run wrote the target file
    log,         \* history: report and counters of every run so far
    findings,    \* validation: what the last validation of a table found
    pc,          \* batch: control point of main(), "idle" outside a batch
    dirs,        \* batch: which directories and inputs exist at the start
    shards,      \* batch: per shard, the kind of each of its files at the start
    argv,        \* batch: the kind of command line the run was started with
    todo,        \* batch: shards the loop of main() has not finished
    checked,     \* batch: verdict of validate_directory per directory
    answer,      \* batch: last classified answer to the prompt
    written,     \* batch: files and directories the run created or changed
    raised       \* batch: the uncaught exception that ended the run, if any

tableVars == <<enFile, trgFile, obsFile, patchFile, masterFile, locFile,
               op, old, removed, stats, report, wrote, log, findings>>

batchVars == <<pc, dirs, shards, argv, todo, checked, answer, written, raised>>

vars == <<tableVars, batchVars>>

\* the shards of a batch
Shards == {"s1", "s2"}

\* raised when no exception has been raised
NoError == [shard |-> "none", why |-> "none"]

\* no batch is running: the state of the batch variables in the
\* specifications of one shard
IdleBatch ==
    /\ pc = "idle"
    /\ dirs = <<>>
    /\ shards = <<>>
    /\ argv = "none"
    /\ todo = {}
    /\ checked = <<>>
    /\ answer = "none"
    /\ written = {}
    /\ raised = NoError

----------------------------------------------------------------------------
(* Bounds of the model *)

\* merge and split: rows over all input tables of one initial state
MaxRows == 3
\* consecutive runs of one program
MaxRuns == 2
\* patch fill: rows of the reference table and of the candidate table
MaxRefRows == 2
\* patch fill: rows of the current table
MaxCurRows == 2

(* Input alphabets.  " " is a whitespace-only key, "#Loc;1" a key carrying  *)
(* the reserved service prefix of split_loc_master.py.                      *)
Keys == {"A", "B"}
Texts == {"", "Hello", "Salut"}
Tips == {"", "tip"}

\* rows with an empty or whitespace-only key: one bare, one with content
BlankRow == {[key |-> "", text |-> "", tooltip |-> ""],
             [key |-> " ", text |-> "Hello", tooltip |-> "tip"]}

\* rows of the shard files given to merge_tsv.py and merge_patch_translation.py
Row == [key : Keys, text : Texts, tooltip : Tips] \cup BlankRow

\* patch fill reads only key and text of the reference and of the candidate
RefRow == [key : Keys, text : {"", "Hello"}, tooltip : {""}]
              \cup {[key |-> "", text |-> "", tooltip |-> ""]}
CandRow == [key : Keys, text : Texts, tooltip : {""}]
              \cup {[key |-> "", text |-> "", tooltip |-> ""]}

\* rows of the shard files given to split_loc_master.py: also a "#Loc;" row
LocRow == Row \cup {[key |-> "#Loc;1", text |-> "Hello", tooltip |-> ""]}

\* split reads only key and text of the master
MasterRow == [key : Keys, text : Texts, tooltip : {""}]
              \cup {[key |-> "", text |-> "", tooltip |-> ""],
                    [key |-> "#Loc;1", text |-> "Salut", tooltip |-> ""]}

RECURSIVE SeqsUpTo(_, _)
SeqsUpTo(S, n) ==
    IF n = 0 THEN {<<>>}
    ELSE LET shorter == SeqsUpTo(S, n - 1)
         IN  shorter \cup {Append(s, x) : s \in {t \in shorter : Len(t) = n - 1}, x \in S}

\* a file on disk: present with its rows, or absent
File(rows) == [exists |-> TRUE, rows |-> rows]
Absent == [exists |-> FALSE, rows |-> <<>>]

\* a file holding rows, or (when it would be empty) no file at all
FileOrAbsent(rows) == IF rows = <<>> THEN {File(rows), Absent} ELSE {File(rows)}

NoStats == [added |-> 0, removed |-> 0, modified |-> 0, updated |-> 0]

Runs == Len(log)

----------------------------------------------------------------------------
(* Table helpers (pandas operations used by the scripts) *)

\* df["key"].str.strip() == ""
IsBlank(k) == k \in {"", " "}

\* df[df["key"].str.strip() != ""]
Keyed(t) == SelectSeq(t, LAMBDA r : ~IsBlank(r.key))

\* set(df["key"])
KeySet(t) == {t[i].key : i \in 1..Len(t)}

\* k in dict(zip(t["key"], t["text"]))
HasKey(t, k) == \E i \in 1..Len(t) : t[i].key = k

\* dict(zip(t["key"], t["text"]))[k]: a later row overwrites an earlier one
LastText(t, k) ==
    LET last == CHOOSE i \in 1..Len(t) :
                    /\ t[i].key = k
                    /\ \A j \in (i + 1)..Len(t) : t[j].key # k
    IN  t[last].text

RECURSIVE Flatten(_)
Flatten(ss) == IF ss = <<>> THEN <<>> ELSE Head(ss) \o Flatten(Tail(ss))

----------------------------------------------------------------------------
(* merge_tsv.py *)

\* JoinRow with the translation overwritten by the reference text
JoinRow_TakesReference(r, trg) ==
    LET m == SelectSeq(trg, LAMBDA c : c.key = r.key)
    IN  IF m = <<>> THEN <<r>>
        ELSE [i \in 1..Len(m) |-> r]

\* JoinRow with an empty old text kept
JoinRow_KeepsEmpty(r, trg) ==
    LET m == SelectSeq(trg, LAMBDA c : c.key = r.key)
    IN  IF m = <<>> THEN <<r>>
        ELSE [i \in 1..Len(m) |->
                [key |-> r.key, text |-> m[i].text, tooltip |-> r.tooltip]]

\* JoinRow with the tooltip of the current row put in the joined row
JoinRow_KeepsTooltip(r, trg) ==
    LET m == SelectSeq(trg, LAMBDA c : c.key = r.key)
    IN  IF m = <<>> THEN <<r>>
        ELSE [i \in 1..Len(m) |->
                [key |-> r.key,
                 text |-> IF m[i].text # "" THEN m[i].text ELSE r.text,
                 tooltip |-> m[i].tooltip]]

\* the rows src.merge(trg, on="key", how="left", suffixes=("", "_old")) yields
\* for one src row, after the text_old rule and the projection on src.columns
JoinRow(r, trg) ==
    LET m == SelectSeq(trg, LAMBDA c : c.key = r.key)
    IN  IF m = <<>> THEN <<r>>
        ELSE [i \in 1..Len(m) |->
                [key |-> r.key,
                 text |-> IF m[i].text # "" THEN m[i].text ELSE r.text,
                 tooltip |-> r.tooltip]]

\* Merged as an inner join: reference rows without a current row are lost
Merged_InnerJoin(src, trg) ==
    Flatten([i \in 1..Len(src) |->
                IF HasKey(trg, src[i].key) THEN JoinRow(src[i], trg) ELSE <<>>])

\* merged, as written to trg_path
Merged(src, trg) == Flatten([i \in 1..Len(src) |-> JoinRow(src[i], trg)])

\* Removed that leaves out the rows without text
Removed_SkipsEmptyText(src, trg) ==
    SelectSeq(trg, LAMBDA c : c.key \notin KeySet(src) /\ c.text # "")

\* removed = trg.loc[~trg["key"].isin(src["key"])]
Removed(src, trg) == SelectSeq(trg, LAMBDA c : c.key \notin KeySet(src))

\* new_keys = src.loc[~src["key"].isin(trg["key"])]
NewKeys(src, trg) == SelectSeq(src, LAMBDA r : r.key \notin KeySet(trg))

\* modified_count: joined rows with a non-empty text and no (or an empty) old text
ModifiedCount(src, trg) ==
    LET one(r) == IF r.text = "" THEN 0
                  ELSE LET m == SelectSeq(trg, LAMBDA c : c.key = r.key)
                       IN  IF m = <<>> THEN 1
                           ELSE Len(SelectSeq(m, LAMBDA c : c.text = ""))
        RECURSIVE sum(_)
        sum(i) == IF i = 0 THEN 0 ELSE one(src[i]) + sum(i - 1)
    IN  sum(Len(src))

\* ArchiveAfter with the removed rows added to the archive already there
ArchiveAfter_Cumulative(obs, rem) ==
    IF rem # <<>> THEN File(obs.rows \o rem) ELSE obs

\* the archive file after a run: written only when rows were removed
ArchiveAfter(obs, rem) ==
    IF rem # <<>> THEN File(rem) ELSE obs

\* one pass of the loop body of main() over the shard
MergeRun ==
    /\ Runs < MaxRuns
    /\ op \in {"none", "merge", "upstream"}
    /\ enFile.exists
    /\ LET src == Keyed(enFile.rows)
           trg == Keyed(IF trgFile.exists THEN trgFile.rows ELSE <<>>)
           rem == Removed(src, trg)
       IN  /\ trgFile' = File(Merged(src, trg))
           /\ obsFile' = ArchiveAfter(obsFile, rem)
           /\ removed' = rem
           /\ stats' = [added |-> Len(NewKeys(src, trg)),
                        removed |-> Len(rem),
                        modified |-> ModifiedCount(src, trg),
                        updated |-> 0]
           /\ report' = IF Len(NewKeys(src, trg)) > 0 \/ Len(rem) > 0
                           \/ ModifiedCount(src, trg) > 0
                        THEN "changes" ELSE "none"
    /\ old' = trgFile
    /\ wrote' = TRUE
    /\ op' = "merge"
    /\ log' = Append(log, [report |-> report', stats |-> stats'])
    /\ UNCHANGED <<enFile, patchFile, masterFile, locFile>>
    /\ UNCHANGED <<findings, batchVars>>

InitMerge ==
    /\ \E s \in SeqsUpTo(Row, MaxRows) :
         /\ enFile = File(s)
         /\ \/ trgFile = Absent
            \/ \E t \in SeqsUpTo(Row, MaxRows - Len(s)) : trgFile = File(t)
    /\ obsFile = Absent
    /\ patchFile = Absent
    /\ masterFile = Absent
    /\ locFile = Absent
    /\ op = "none"
    /\ old = Absent
    /\ removed = <<>>
    /\ stats = NoStats
    /\ report = "none"
    /\ wrote = FALSE
    /\ log = <<>>
    /\ findings = <<>>
    /\ IdleBatch

NextMerge == MergeRun

SpecMerge == InitMerge /\ [][NextMerge]_vars

\* the tables table t can become when upstream changes the text of one row
\* or drops one row
UpstreamEdits(t) ==
    {[t EXCEPT ![i].text = x] : i \in 1..Len(t), x \in Texts} \cup
    {SubSeq(t, 1, i - 1) \o SubSeq(t, i + 1, Len(t)) : i \in 1..Len(t)}

\* between two merge runs upstream publishes a new version of the reference
\* shard; old keeps the version the previous run read
UpstreamEdit ==
    /\ Runs < MaxRuns
    /\ op = "merge"
    /\ \E t \in UpstreamEdits(enFile.rows) \ {enFile.rows} : enFile' = File(t)
    /\ old' = enFile
    /\ op' = "upstream"
    /\ UNCHANGED <<trgFile, obsFile, patchFile, masterFile, locFile,
                   removed, stats, report, wrote, log>>
    /\ UNCHANGED <<findings, batchVars>>

\* no program has run yet
Fresh ==
    /\ op = "none"
    /\ old = Absent
    /\ removed = <<>>
    /\ stats = NoStats
    /\ report = "none"
    /\ wrote = FALSE
    /\ log = <<>>
    /\ findings = <<>>
    /\ IdleBatch

\* the files of a merge: a reference table and possibly a current table, of
\* at most n rows together, with rows from R
MergeInputs(R, n) ==
    /\ \E s \in SeqsUpTo(R, n) :
         /\ enFile = File(s)
         /\ \/ trgFile = Absent
            \/ \E t \in SeqsUpTo(R, n - Len(s)) : trgFile = File(t)
    /\ obsFile = Absent
    /\ patchFile = Absent
    /\ masterFile = Absent
    /\ locFile = Absent

\* rows of the runs over a changing reference: the tooltip plays no part
TextRow == [key : Keys, text : Texts, tooltip : {""}]
               \cup {[key |-> "", text |-> "", tooltip |-> ""]}

InitMergeRuns == Fresh /\ MergeInputs(TextRow, MaxRows)

NextMergeRuns == MergeRun \/ UpstreamEdit

\* merge runs with upstream changes of the reference in between
SpecMergeRuns == InitMergeRuns /\ [][NextMergeRuns]_vars

----------------------------------------------------------------------------
(* merge_patch_translation.py *)

\* df[df["key"].str.strip() != ""].iloc[1:]
SubTable(t) == IF Keyed(t) = <<>> THEN <<>> ELSE Tail(Keyed(t))

\* Promotes without the test that the candidate text differs from the
\* reference text
Promotes_NoDiffTest(row, subEn, subPatch) ==
    LET k == row.key
        textEn == IF HasKey(subEn, k) THEN LastText(subEn, k) ELSE ""
    IN  /\ k # "" /\ HasKey(subPatch, k) /\ LastText(subPatch, k) # ""
        /\ (row.text = textEn \/ row.text = "")

\* the condition of the if statement in the loop of process()
Promotes(row, subEn, subPatch) ==
    LET k == row.key
        textEn == IF HasKey(subEn, k) THEN LastText(subEn, k) ELSE ""
    IN  /\ k # ""
        /\ HasKey(subPatch, k)
        /\ LastText(subPatch, k) # ""
        /\ LastText(subPatch, k) # textEn
        /\ (row.text = textEn \/ row.text = "")

\* the translation table after the loop of process()
Patched(translation, subEn, subPatch) ==
    [i \in 1..Len(translation) |->
        IF Promotes(translation[i], subEn, subPatch)
        THEN [translation[i] EXCEPT !.text = LastText(subPatch, translation[i].key)]
        ELSE translation[i]]

\* updated: the number of rows the loop changed
PromotedCount(translation, subEn, subPatch) ==
    Cardinality({i \in 1..Len(translation) : Promotes(translation[i], subEn, subPatch)})

\* process(): one of the three files is missing
PatchSkip ==
    /\ Runs < MaxRuns
    /\ op \in {"none", "patch"}
    /\ ~(enFile.exists /\ trgFile.exists /\ patchFile.exists)
    /\ report' = "skip"
    /\ stats' = NoStats
    /\ old' = trgFile
    /\ wrote' = FALSE
    /\ op' = "patch"
    /\ log' = Append(log, [report |-> report', stats |-> stats'])
    /\ UNCHANGED <<enFile, trgFile, obsFile, patchFile, masterFile, locFile, removed>>
    /\ UNCHANGED <<findings, batchVars>>

\* process(): all three files exist
PatchRun ==
    /\ Runs < MaxRuns
    /\ op \in {"none", "patch"}
    /\ enFile.exists /\ trgFile.exists /\ patchFile.exists
    /\ LET subEn == SubTable(enFile.rows)
           subPatch == SubTable(patchFile.rows)
           updated == PromotedCount(trgFile.rows, subEn, subPatch)
       IN  /\ trgFile' = IF updated # 0
                         THEN File(Patched(trgFile.rows, subEn, subPatch))
                         ELSE trgFile
           /\ wrote' = (updated # 0)
           /\ report' = IF updated # 0 THEN "updated" ELSE "none"
           /\ stats' = [NoStats EXCEPT !.updated = updated]
    /\ old' = trgFile
    /\ op' = "patch"
    /\ log' = Append(log, [report |-> report', stats |-> stats'])
    /\ UNCHANGED <<enFile, obsFile, patchFile, masterFile, locFile, removed>>
    /\ UNCHANGED <<findings, batchVars>>

InitPatch ==
    /\ \E e \in SeqsUpTo(RefRow, MaxRefRows) :
       \E t \in SeqsUpTo(Row, MaxCurRows) :
       \E p \in SeqsUpTo(CandRow, MaxRefRows) :
         /\ enFile \in FileOrAbsent(e)
         /\ trgFile \in FileOrAbsent(t)
         /\ patchFile \in FileOrAbsent(p)
    /\ obsFile = Absent
    /\ masterFile = Absent
    /\ locFile = Absent
    /\ op = "none"
    /\ old = Absent
    /\ removed = <<>>
    /\ stats = NoStats
    /\ report = "none"
    /\ wrote = FALSE
    /\ log = <<>>
    /\ findings = <<>>
    /\ IdleBatch

NextPatch == PatchSkip \/ PatchRun

SpecPatch == InitPatch /\ [][NextPatch]_vars

----------------------------------------------------------------------------
(* split_loc_master.py *)

\* loc_df["key"].str.startswith("#Loc;")
HasLocPrefix(k) == k \in {"#Loc;1"}

\* the mask "can be edited"
Editable(row) == ~IsBlank(row.key) /\ ~HasLocPrefix(row.key)

\* the starting loc_df: the prior output, or a copy of the EN file
StartTable(en, loc) == IF loc.exists THEN loc.rows ELSE en.rows

\* en_df.at[idx, "text"] raises KeyError: an editable row of loc_df stands at
\* a position the EN table does not have
RaisesKeyError(en, start) ==
    \E i \in 1..Len(start) : Editable(start[i]) /\ i > Len(en)

\* SplitUpdates without the test that the master text differs from EN
SplitUpdates_NoDiffTest(en, master, start, i) ==
    LET k == start[i].key
    IN  /\ Editable(start[i])
        /\ HasKey(master, k) /\ LastText(master, k) # ""
        /\ (start[i].text = en[i].text \/ start[i].text = "")

\* the condition of the if statement in the loop of process(), for row i
SplitUpdates(en, master, start, i) ==
    LET k == start[i].key
    IN  /\ Editable(start[i])
        /\ HasKey(master, k) /\ LastText(master, k) # ""
        /\ (start[i].text = en[i].text \/ start[i].text = "")
        /\ LastText(master, k) # en[i].text

\* loc_df after the loop of process()
SplitTable(en, master, start) ==
    [i \in 1..Len(start) |->
        IF SplitUpdates(en, master, start, i)
        THEN [start[i] EXCEPT !.text = LastText(master, start[i].key)]
        ELSE start[i]]

\* updated: the number of rows the loop changed
SplitCount(en, master, start) ==
    Cardinality({i \in 1..Len(start) : SplitUpdates(en, master, start, i)})

\* main(): the master file is missing, sys.exit before any shard is read
SplitNoMaster ==
    /\ Runs < MaxRuns
    /\ op \in {"none", "split"}
    /\ ~masterFile.exists
    /\ report' = "fatal"
    /\ stats' = NoStats
    /\ old' = locFile
    /\ wrote' = FALSE
    /\ op' = "split"
    /\ log' = Append(log, [report |-> report', stats |-> stats'])
    /\ UNCHANGED <<enFile, trgFile, obsFile, patchFile, masterFile, locFile, removed>>
    /\ UNCHANGED <<findings, batchVars>>

\* process(): the loop raises KeyError, the run ends with nothing written
SplitCrash ==
    /\ Runs < MaxRuns
    /\ op \in {"none", "split"}
    /\ masterFile.exists /\ enFile.exists
    /\ RaisesKeyError(enFile.rows, StartTable(enFile, locFile))
    /\ report' = "crash"
    /\ stats' = NoStats
    /\ old' = locFile
    /\ wrote' = FALSE
    /\ op' = "split"
    /\ log' = Append(log, [report |-> report', stats |-> stats'])
    /\ UNCHANGED <<enFile, trgFile, obsFile, patchFile, masterFile, locFile, removed>>
    /\ UNCHANGED <<findings, batchVars>>

\* process(): the loop completes
SplitRun ==
    /\ Runs < MaxRuns
    /\ op \in {"none", "split"}
    /\ masterFile.exists /\ enFile.exists
    /\ ~RaisesKeyError(enFile.rows, StartTable(enFile, locFile))
    /\ LET start == StartTable(enFile, locFile)
           updated == SplitCount(enFile.rows, masterFile.rows, start)
           write == updated # 0 \/ ~locFile.exists
       IN  /\ locFile' = IF write
                         THEN File(SplitTable(enFile.rows, masterFile.rows, start))
                         ELSE locFile
           /\ wrote' = write
           /\ report' = IF write THEN "updated" ELSE "noupdate"
           /\ stats' = [NoStats EXCEPT !.updated = updated]
    /\ old' = locFile
    /\ op' = "split"
    /\ log' = Append(log, [report |-> report', stats |-> stats'])
    /\ UNCHANGED <<enFile, trgFile, obsFile, patchFile, masterFile, removed>>
    /\ UNCHANGED <<findings, batchVars>>

InitSplit ==
    /\ \E m \in SeqsUpTo(MasterRow, MaxRows) :
       \E e \in SeqsUpTo(LocRow, MaxRows - Len(m)) :
         /\ masterFile \in FileOrAbsent(m)
         /\ enFile = File(e)
         /\ \/ locFile = Absent
            \/ \E l \in SeqsUpTo(LocRow, MaxRows - Len(m) - Len(e)) : locFile = File(l)
    /\ trgFile = Absent
    /\ obsFile = Absent
    /\ patchFile = Absent
    /\ op = "none"
    /\ old = Absent
    /\ removed = <<>>
    /\ stats = NoStats
    /\ report = "none"
    /\ wrote = FALSE
    /\ log = <<>>
    /\ findings = <<>>
    /\ IdleBatch

NextSplit == SplitNoMaster \/ SplitCrash \/ SplitRun

SpecSplit == InitSplit /\ [][NextSplit]_vars

----------------------------------------------------------------------------
(* The three reconciliation programs side by side, each on one shard: the  *)
(* inputs of merge and of split as above, the inputs of patch fill bounded *)
(* by MaxRows over its three tables.                                       *)

\* rows whose tooltip varies
TipRow == [key : Keys, text : {"", "Hello"}, tooltip : Tips]
              \cup {[key |-> "", text |-> "", tooltip |-> ""]}

\* the files of a patch fill, of at most n rows together
PatchInputs(n) ==
    /\ \E e \in SeqsUpTo(RefRow, n) :
       \E p \in SeqsUpTo(CandRow, n - Len(e)) :
       \E t \in SeqsUpTo(TipRow, n - Len(e) - Len(p)) :
         /\ enFile = File(e)
         /\ patchFile = File(p)
         /\ trgFile = File(t)
    /\ obsFile = Absent
    /\ masterFile = Absent
    /\ locFile = Absent

\* rows of the split output and of the reference shard, and of the master
TipLocRow == TipRow \cup {[key |-> "#Loc;1", text |-> "Hello", tooltip |-> ""]}
TipMasterRow == [key : Keys, text : {"Salut"}, tooltip : {""}]

\* the files of a split, of at most n rows together
SplitInputs(n) ==
    /\ \E m \in SeqsUpTo(TipMasterRow, n) :
       \E e \in SeqsUpTo(TipLocRow, n - Len(m)) :
         /\ masterFile \in FileOrAbsent(m)
         /\ enFile = File(e)
         /\ \/ locFile = Absent
            \/ \E l \in SeqsUpTo(TipLocRow, n - Len(m) - Len(e)) :
                  locFile = File(l)
    /\ trgFile = Absent
    /\ obsFile = Absent
    /\ patchFile = Absent

InitReconcile ==
    /\ Fresh
    /\ \/ MergeInputs(TipRow, MaxRows)
       \/ PatchInputs(MaxRows)
       \/ SplitInputs(MaxRows)

NextReconcile == NextMerge \/ NextPatch \/ NextSplit

SpecReconcile == InitReconcile /\ [][NextReconcile]_vars

----------------------------------------------------------------------------
(* Repeated patch fill of one shard whose three files exist.  A promotion   *)
(* of a key that stands in the reference lookup needs five rows (two of the *)
(* reference, two of the candidate, one of current), hence the two rows     *)
(* more than MaxRows.                                                       *)

PatchRunsInputs(n) ==
    /\ \E e \in SeqsUpTo(RefRow, n) :
       \E p \in SeqsUpTo(CandRow, n - Len(e)) :
       \E t \in SeqsUpTo(RefRow, n - Len(e) - Len(p)) :
         /\ enFile = File(e)
         /\ patchFile = File(p)
         /\ trgFile = File(t)
    /\ obsFile = Absent
    /\ masterFile = Absent
    /\ locFile = Absent

InitPatchRuns == Fresh /\ PatchRunsInputs(MaxRows + 2)

NextPatchRuns == PatchRun

SpecPatchRuns == InitPatchRuns /\ [][NextPatchRuns]_vars

----------------------------------------------------------------------------
(* split_loc_master.py, main(): the batch over the shards of the EN         *)
(* directory.  Each shard is reduced to what the loop of main() depends on:  *)
(* en, the EN shard exists; loc, the prior output is absent ("none"), has    *)
(* no editable row beyond the EN shard's length ("ok") or has one ("long",   *)
(* RaisesKeyError); due, process() finds a row to update (SplitCount > 0).   *)
(* argv is sys.argv[1:]: empty ("none"), options whose tokens name nothing   *)
(* that exists under the EN directory ("option"), or options with a token    *)
(* that is the absolute path of an existing directory ("path").              *)

SplitShard == [en : BOOLEAN, loc : {"none", "ok", "long"}, due : BOOLEAN]
SplitArgv == {"none", "option", "path"}

\* targets: the glob of *.loc.tsv in the EN directory
Targets(sh) == {s \in Shards : sh[s].en}

\* the files the loop of main() iterates: sys.argv[1:] or targets
LoopFiles(av, sh) == IF av = "none" THEN Targets(sh) ELSE {}

\* process(): the shard is written if rows were updated or it did not exist
SplitWrites(shard) == shard.due \/ shard.loc = "none"

\* main() up to the loop: the master is read or the run ends with sys.exit
SplitMain ==
    /\ pc = "start"
    /\ IF dirs.master
       THEN /\ pc' = "loop"
            /\ todo' = LoopFiles(argv, shards)
       ELSE /\ pc' = "exit1"
            /\ todo' = todo
    /\ UNCHANGED <<dirs, shards, argv, checked, answer, written, raised>>
    /\ UNCHANGED tableVars

\* process(f) for a shard of the EN directory
SplitProcess(s) ==
    /\ pc = "loop"
    /\ s \in todo
    /\ shards[s].loc # "long"
    /\ written' = IF SplitWrites(shards[s]) THEN written \cup {<<"loc", s>>}
                  ELSE written
    /\ todo' = todo \ {s}
    /\ UNCHANGED <<pc, dirs, shards, argv, checked, answer, raised>>
    /\ UNCHANGED tableVars

\* process(f) raises KeyError: the exception ends main()
SplitProcessKeyError(s) ==
    /\ pc = "loop"
    /\ s \in todo
    /\ shards[s].loc = "long"
    /\ pc' = "traceback"
    /\ raised' = [shard |-> s, why |-> "KeyError"]
    /\ UNCHANGED <<dirs, shards, argv, todo, checked, answer, written>>
    /\ UNCHANGED tableVars

\* process(token) for an option token that is an existing absolute path:
\* load() of a directory raises
SplitProcessPath ==
    /\ pc = "loop"
    /\ argv = "path"
    /\ pc' = "traceback"
    /\ raised' = [shard |-> "none", why |-> "IsADirectoryError"]
    /\ UNCHANGED <<dirs, shards, argv, todo, checked, answer, written>>
    /\ UNCHANGED tableVars

\* the loop is over (every option token was skipped with "no EN reference")
SplitExit ==
    /\ pc = "loop"
    /\ todo = {}
    /\ argv # "path"
    /\ pc' = "exit0"
    /\ UNCHANGED <<dirs, shards, argv, todo, checked, answer, written, raised>>
    /\ UNCHANGED tableVars

IdleTables ==
    /\ enFile = Absent
    /\ trgFile = Absent
    /\ obsFile = Absent
    /\ patchFile = Absent
    /\ masterFile = Absent
    /\ locFile = Absent
    /\ op = "none"
    /\ old = Absent
    /\ removed = <<>>
    /\ stats = NoStats
    /\ report = "none"
    /\ wrote = FALSE
    /\ log = <<>>
    /\ findings = <<>>

InitSplitBatch ==
    /\ IdleTables
    /\ pc = "start"
    /\ dirs \in [master : BOOLEAN]
    /\ shards \in [Shards -> SplitShard]
    /\ \A s \in Shards : ~shards[s].en => shards[s].loc # "long"
    /\ argv \in SplitArgv
    /\ todo = {}
    /\ checked = <<>>
    /\ answer = "none"
    /\ written = {}
    /\ raised = NoError

NextSplitBatch ==
    \/ SplitMain
    \/ \E s \in Shards : SplitProcess(s)
    \/ \E s \in Shards : SplitProcessKeyError(s)
    \/ SplitProcessPath
    \/ SplitExit

SpecSplitBatch == InitSplitBatch /\ [][NextSplitBatch]_vars

----------------------------------------------------------------------------
(* Validation of one table: validate_tsv_file() of merge_tsv.py and the     *)
(* body of the loop of validate_tsv.py.  The table has been read and has    *)
(* the three required columns.                                              *)

\* rows of a validated table
MaxValRows == 4

\* validation reads the key column only
ValRow == [key : Keys \cup {"", " "}, text : {"Hello"}, tooltip : {""}]

Indices(n) == [i \in 1..n |-> i]

\* the elements of sequence ks at the positions listed in idxs
Pick(ks, idxs) == [n \in 1..Len(idxs) |-> ks[idxs[n]]]

\* Series.duplicated(): an earlier element is equal
Duplicated(ks, j) == \E i \in 1..(j - 1) : ks[i] = ks[j]

\* Series.unique(): the first occurrence of every value, in order
Unique(ks) ==
    Pick(ks, SelectSeq(Indices(Len(ks)), LAMBDA j : ~Duplicated(ks, j)))

\* df.index[empty_rows] + 2: the file line of every row whose stripped key
\* is empty (line 1 is the header)
EmptyKeyRows(t) ==
    LET at == SelectSeq(Indices(Len(t)), LAMBDA i : IsBlank(t[i].key))
    IN  [n \in 1..Len(at) |-> at[n] + 1]

\* the key column as a sequence
KeyColumn(t) == [i \in 1..Len(t) |-> t[i].key]

\* DupKeys with the duplicates taken over all rows, blank keys included
DupKeys_AllRows(t) ==
    LET ks == KeyColumn(t)
        dup == Pick(ks, SelectSeq(Indices(Len(ks)), LAMBDA j : Duplicated(ks, j)))
    IN  Unique(dup)

\* non_empty_keys[non_empty_keys.duplicated()].unique()
DupKeys(t) ==
    LET ks == KeyColumn(Keyed(t))
        dup == Pick(ks, SelectSeq(Indices(Len(ks)), LAMBDA j : Duplicated(ks, j)))
    IN  Unique(dup)

\* validate_tsv_file(): one error message per kind of finding
ValidateTsvFile(t) ==
    LET errors == (IF EmptyKeyRows(t) # <<>> THEN 1 ELSE 0)
                  + (IF DupKeys(t) # <<>> THEN 1 ELSE 0)
    IN  [emptyRows |-> EmptyKeyRows(t), dupKeys |-> DupKeys(t),
         warned |-> FALSE, failed |-> errors # 0]

\* validate_tsv.py: empty keys are a warning, duplicates a failure
CheckTsv(t) ==
    [emptyRows |-> EmptyKeyRows(t), dupKeys |-> DupKeys(t),
     warned |-> EmptyKeyRows(t) # <<>>, failed |-> DupKeys(t) # <<>>]

\* merge_tsv.py validates the table
ValidateFile ==
    /\ op = "none"
    /\ findings' = ValidateTsvFile(trgFile.rows)
    /\ op' = "validate"
    /\ UNCHANGED <<enFile, trgFile, obsFile, patchFile, masterFile, locFile,
                   old, removed, stats, report, wrote, log>>
    /\ UNCHANGED batchVars

\* validate_tsv.py validates the table
ValidateCheck ==
    /\ op = "none"
    /\ findings' = CheckTsv(trgFile.rows)
    /\ op' = "check"
    /\ UNCHANGED <<enFile, trgFile, obsFile, patchFile, masterFile, locFile,
                   old, removed, stats, report, wrote, log>>
    /\ UNCHANGED batchVars

InitValidate ==
    /\ \E t \in SeqsUpTo(ValRow, MaxValRows) : trgFile = File(t)
    /\ enFile = Absent
    /\ obsFile = Absent
    /\ patchFile = Absent
    /\ masterFile = Absent
    /\ locFile = Absent
    /\ op = "none"
    /\ old = Absent
    /\ removed = <<>>
    /\ stats = NoStats
    /\ report = "none"
    /\ wrote = FALSE
    /\ log = <<>>
    /\ findings = <<>>
    /\ IdleBatch

NextValidate == ValidateFile \/ ValidateCheck

SpecValidate == InitValidate /\ [][NextValidate]_vars

----------------------------------------------------------------------------
(* merge_tsv.py, main(): the batch over the shards of the reference          *)
(* directory.  Each file is reduced to its kind: "none" (no such file),      *)
(* "ok", "invalid" (readable, three columns, but with empty or duplicate     *)
(* keys), "unreadable" (read_csv raises), "wide" (the three columns and a    *)
(* fourth one) or "nokey" (no key column).  rem: the current shard holds     *)
(* keyed rows whose key the reference shard lacks (Removed is not empty).    *)
(* dirs tells which of SRC_DIR, TRG_DIR and OBSOLETE_DIR exist.              *)

FileKind == {"none", "ok", "invalid", "unreadable", "wide", "nokey"}

\* required_cols of validate_tsv_file
RequiredCols == <<"key", "text", "tooltip">>

\* list(df.columns) of a file that read_csv reads
ColumnsOf(kind) ==
    CASE kind = "wide" -> <<"key", "text", "tooltip", "note">>
      [] kind = "nokey" -> <<"text", "tooltip">>
      [] OTHER -> RequiredCols

\* validate_tsv_file(): is_valid
FileValid(kind) ==
    /\ kind # "unreadable"
    /\ ColumnsOf(kind) = RequiredCols
    /\ kind # "invalid"
MergeShard == [src : FileKind, trg : FileKind, rem : BOOLEAN]

\* what the user types at the prompt
Responses == {"y", "YES", "n", " no ", "maybe", ""}

\* response.lower().strip()
LowerStrip(r) ==
    CASE r = "YES" -> "yes"
      [] r = " no " -> "no"
      [] OTHER -> r

\* ask_continue with every answer but a refusal taken for a yes
AskContinue_DefaultYes(r) ==
    IF r \in {"n", "no"} THEN "no" ELSE "yes"

\* ask_continue(): the outcome of one round of the loop
AskContinue(r) ==
    IF r \in {"y", "yes"} THEN "yes"
    ELSE IF r \in {"n", "no"} THEN "no"
    ELSE "again"

\* validate_directory with a missing directory counted as a failure
ValidateDirectory_MissingFails(exists, kinds) ==
    IF ~exists THEN "invalid"
    ELSE IF \E k \in kinds : ~FileValid(k) THEN "invalid"
    ELSE "valid"

\* validate_directory(): a missing directory is reported and passes
ValidateDirectory(exists, kinds) ==
    IF ~exists THEN "valid"
    ELSE IF \E k \in kinds : ~FileValid(k) THEN "invalid"
    ELSE "valid"

\* src_dir.glob("*.loc.tsv")
SrcFiles(sh) == {s \in Shards : sh[s].src # "none"}

\* the directory entries mkdir(parents=True, exist_ok=True) creates
MkDir(d) == IF dirs[d] THEN {} ELSE {<<"dir", d>>}

Unchecked == [src |-> "unknown", trg |-> "unknown"]

\* line 123: validate_directory(src_dir)
MainValidateSrc ==
    /\ pc = "start"
    /\ checked' = [checked EXCEPT !.src =
                      ValidateDirectory(dirs.src, {shards[s].src : s \in Shards} \ {"none"})]
    /\ pc' = "validate_trg"
    /\ UNCHANGED <<dirs, shards, argv, todo, answer, written, raised>>
    /\ UNCHANGED tableVars

\* lines 124-137: validate_directory(trg_dir) and the branch on the verdicts
MainValidateTrg ==
    /\ pc = "validate_trg"
    /\ checked' = [checked EXCEPT !.trg =
                      ValidateDirectory(dirs.trg, {shards[s].trg : s \in Shards} \ {"none"})]
    /\ IF checked'.src = "valid" /\ checked'.trg = "valid"
       THEN pc' = "loop" /\ todo' = SrcFiles(shards)
       ELSE pc' = "prompt" /\ todo' = todo
    /\ UNCHANGED <<dirs, shards, argv, answer, written, raised>>
    /\ UNCHANGED tableVars

\* one round of ask_continue() and, on its return, lines 130-134
MainPrompt(response) ==
    /\ pc = "prompt"
    /\ answer' = LowerStrip(response)
    /\ LET outcome == AskContinue(answer')
       IN  /\ pc' = CASE outcome = "yes" -> "loop"
                      [] outcome = "no" -> "exit1"
                      [] OTHER -> "prompt"
           /\ todo' = IF outcome = "yes" THEN SrcFiles(shards) ELSE todo
    /\ UNCHANGED <<dirs, shards, argv, checked, written, raised>>
    /\ UNCHANGED tableVars

\* input() meets the end of standard input
MainPromptEOF ==
    /\ pc = "prompt"
    /\ pc' = "traceback"
    /\ raised' = [shard |-> "none", why |-> "EOFError"]
    /\ UNCHANGED <<dirs, shards, argv, todo, checked, answer, written>>
    /\ UNCHANGED tableVars

Readable(shard) == shard.src # "unreadable" /\ shard.trg # "unreadable"

\* the columns of src and of trg in the loop; without a current file trg is
\* an empty frame with the columns of src (line 150)
SrcColumns(shard) == ColumnsOf(shard.src)
TrgColumns(shard) ==
    IF shard.trg = "none" THEN ColumnsOf(shard.src) ELSE ColumnsOf(shard.trg)

Has(cols, c) == \E i \in 1..Len(cols) : cols[i] = c

\* lines 154-165 raise no KeyError: src["key"], trg["key"] and
\* merged["text_old"] exist
Mergeable(shard) ==
    /\ Has(SrcColumns(shard), "key") /\ Has(TrgColumns(shard), "key")
    /\ Has(SrcColumns(shard), "text") /\ Has(TrgColumns(shard), "text")

\* lines 143-183: a shard is read, merged and written
MainMergeShard(s) ==
    /\ pc = "loop"
    /\ s \in todo
    /\ Readable(shards[s])
    /\ Mergeable(shards[s])
    /\ written' = written \cup MkDir("trg") \cup {<<"trg", s>>}
    /\ IF shards[s].rem
       THEN pc' = "archive" /\ todo' = todo
       ELSE pc' = "loop" /\ todo' = todo \ {s}
    /\ UNCHANGED <<dirs, shards, argv, checked, answer, raised>>
    /\ UNCHANGED tableVars

\* lines 149-150: read_csv raises, nothing catches it
MainReadError(s) ==
    /\ pc = "loop"
    /\ s \in todo
    /\ ~Readable(shards[s])
    /\ pc' = "traceback"
    /\ raised' = [shard |-> s, why |-> "read"]
    /\ UNCHANGED <<dirs, shards, argv, todo, checked, answer, written>>
    /\ UNCHANGED tableVars

\* lines 154-165: a column the loop indexes is missing, nothing catches the
\* KeyError
MainKeyError(s) ==
    /\ pc = "loop"
    /\ s \in todo
    /\ Readable(shards[s])
    /\ ~Mergeable(shards[s])
    /\ pc' = "traceback"
    /\ raised' = [shard |-> s, why |-> "KeyError"]
    /\ UNCHANGED <<dirs, shards, argv, todo, checked, answer, written>>
    /\ UNCHANGED tableVars

\* lines 180-183: mkdir or to_csv raises, nothing catches it; the directory
\* and the file may or may not have been touched
MainWriteError(s) ==
    /\ pc = "loop"
    /\ s \in todo
    /\ Readable(shards[s])
    /\ Mergeable(shards[s])
    /\ written' \in {written, written \cup MkDir("trg"),
                     written \cup MkDir("trg") \cup {<<"trg", s>>}}
    /\ pc' = "traceback"
    /\ raised' = [shard |-> s, why |-> "write"]
    /\ UNCHANGED <<dirs, shards, argv, todo, checked, answer>>
    /\ UNCHANGED tableVars

\* the shard whose merged table is written and whose archive is due
Archiving == CHOOSE s \in todo : <<"trg", s>> \in written

\* lines 190-198: the removed rows are written to the archive
MainArchive ==
    /\ pc = "archive"
    /\ written' = written \cup MkDir("obs") \cup {<<"obs", Archiving>>}
    /\ todo' = todo \ {Archiving}
    /\ pc' = "loop"
    /\ UNCHANGED <<dirs, shards, argv, checked, answer, raised>>
    /\ UNCHANGED tableVars

\* lines 192-196: mkdir or to_csv of the archive raises
MainArchiveError ==
    /\ pc = "archive"
    /\ written' \in {written, written \cup MkDir("obs"),
                     written \cup MkDir("obs") \cup {<<"obs", Archiving>>}}
    /\ pc' = "traceback"
    /\ raised' = [shard |-> Archiving, why |-> "write"]
    /\ UNCHANGED <<dirs, shards, argv, todo, checked, answer>>
    /\ UNCHANGED tableVars

\* lines 205-215: the summary and sys.exit(0)
MainExit ==
    /\ pc = "loop"
    /\ todo = {}
    /\ pc' = "exit0"
    /\ UNCHANGED <<dirs, shards, argv, todo, checked, answer, written, raised>>
    /\ UNCHANGED tableVars

InitMergeBatch ==
    /\ IdleTables
    /\ pc = "start"
    /\ dirs \in [src : BOOLEAN, trg : BOOLEAN, obs : BOOLEAN]
    /\ shards \in [Shards -> MergeShard]
    /\ \A s \in Shards :
          /\ ~dirs.src => shards[s].src = "none"
          /\ ~dirs.trg => shards[s].trg = "none"
          /\ shards[s].rem => /\ shards[s].src \in {"ok", "invalid", "wide"}
                              /\ shards[s].trg \in {"ok", "invalid", "wide"}
    /\ argv = "none"
    /\ todo = {}
    /\ checked = Unchecked
    /\ answer = "none"
    /\ written = {}
    /\ raised = NoError

NextMergeBatch ==
    \/ MainValidateSrc
    \/ MainValidateTrg
    \/ \E response \in Responses : MainPrompt(response)
    \/ MainPromptEOF
    \/ \E s \in Shards : MainMergeShard(s)
    \/ \E s \in Shards : MainReadError(s)
    \/ \E s \in Shards : MainKeyError(s)
    \/ \E s \in Shards : MainWriteError(s)
    \/ MainArchive
    \/ MainArchiveError
    \/ MainExit

SpecMergeBatch == InitMergeBatch /\ [][NextMergeBatch]_vars

----------------------------------------------------------------------------
(* validate_tsv.py, main(): the run over the files of the directory.        *)
(* shards is the sorted list of files, each reduced to its kind             *)
(* ("unreadable", "nokey", "wide" or "ok" by its columns) and to whether it *)
(* holds rows with an empty key and duplicate keys.  checked holds          *)
(* EXIT_CODE and the marks printed so far, answer the summary.              *)

MaxFiles == 2

CheckedFile ==
    {f \in [kind : {"unreadable", "nokey", "wide", "ok"},
            empty : BOOLEAN, dup : BOOLEAN] :
        f.kind \in {"unreadable", "nokey"} => (~f.empty /\ ~f.dup)}

\* fail(): the message is printed, EXIT_CODE = 1
Fail(c) == [code |-> 1, printed |-> Append(c.printed, "fail")]

\* warn(): the message is printed, EXIT_CODE = 2
Warn(c) == [code |-> 2, printed |-> Append(c.printed, "warn")]

\* lines 55-57: the column check
CheckColumns(f, c) == IF ColumnsOf(f.kind) # RequiredCols THEN Fail(c) ELSE c

\* lines 59-63: the empty keys
CheckEmpty(f, c) == IF f.empty THEN Warn(c) ELSE c

\* lines 65-70: the duplicate keys
CheckDuplicates(f, c) == IF f.dup THEN Fail(c) ELSE c

\* lines 49-70: one round of the loop
CheckBody(f, c) ==
    IF f.kind = "unreadable" THEN Fail(c)
    ELSE CheckDuplicates(f, CheckEmpty(f, CheckColumns(f, c)))

\* lines 73-78: the summary
Summary(code) ==
    IF code = 1 THEN "errors" ELSE IF code = 2 THEN "warnings" ELSE "valid"

\* the next file of sorted(validate_dir.glob("*.loc.tsv"))
NextFile == CHOOSE i \in todo : \A j \in todo : i <= j

\* one round of the loop of main()
CheckFile ==
    /\ pc = "loop"
    /\ todo # {}
    /\ shards[NextFile].kind # "nokey"
    /\ checked' = CheckBody(shards[NextFile], checked)
    /\ todo' = todo \ {NextFile}
    /\ UNCHANGED <<pc, dirs, shards, argv, answer, written, raised>>
    /\ UNCHANGED tableVars

\* lines 56-60: the columns are reported, df["key"] raises KeyError
CheckKeyError ==
    /\ pc = "loop"
    /\ todo # {}
    /\ shards[NextFile].kind = "nokey"
    /\ checked' = CheckColumns(shards[NextFile], checked)
    /\ pc' = "traceback"
    /\ raised' = [shard |-> "none", why |-> "KeyError"]
    /\ UNCHANGED <<dirs, shards, argv, todo, answer, written>>
    /\ UNCHANGED tableVars

\* lines 73-80: the summary; main() returns None, the exit status is 0
CheckSummary ==
    /\ pc = "loop"
    /\ todo = {}
    /\ answer' = Summary(checked.code)
    /\ pc' = "exit0"
    /\ UNCHANGED <<dirs, shards, argv, todo, checked, written, raised>>
    /\ UNCHANGED tableVars

InitCheckRun ==
    /\ IdleTables
    /\ pc = "loop"
    /\ dirs = <<>>
    /\ shards \in SeqsUpTo(CheckedFile, MaxFiles)
    /\ argv = "none"
    /\ todo = 1..Len(shards)
    /\ checked = [code |-> 0, printed |-> <<>>]
    /\ answer = "none"
    /\ written = {}
    /\ raised = NoError

NextCheckRun == CheckFile \/ CheckKeyError \/ CheckSummary

SpecCheckRun == InitCheckRun /\ [][NextCheckRun]_vars

----------------------------------------------------------------------------
(* sync_translation.py: clear_folder(dst, src) followed by copytree(src,    *)
(* dst) over the top-level entries of the two directories.  dirs holds the  *)
(* two listings at the start (per name: "none", "file" or "dir"), argv      *)
(* tells a dry run, written collects the operations done on DST.            *)

\* entry names: a content folder, a name of IGNORE_NAMES, a name with one of
\* IGNORE_SUFFIXES
SyncNames == {"text", ".git", "old.bak"}
EntryKind == {"none", "file", "dir"}

\* should_ignore(name)
ShouldIgnore(name) == name \in {".git"} \/ name \in {"old.bak"}

\* the entries of DST that clear_folder removes with rmtree
Cleared(tree) ==
    {n \in SyncNames : tree.src[n] # "none" /\ tree.dst[n] = "dir"}

\* the entries of SRC that copytree copies
Copied(tree) == {n \in SyncNames : tree.src[n] # "none" /\ ~ShouldIgnore(n)}

\* the kind of entry n of DST after the operations done so far
DstKind(n) ==
    IF <<"copy", n>> \in written THEN dirs.src[n]
    ELSE IF <<"rmtree", n>> \in written THEN "none"
    ELSE dirs.dst[n]

\* clear_folder()
SyncClear ==
    /\ pc = "start"
    /\ written' = IF argv = "dry-run" THEN written
                  ELSE written \cup {<<"rmtree", n>> : n \in Cleared(dirs)}
    /\ todo' = Copied(dirs)
    /\ pc' = "copy"
    /\ UNCHANGED <<dirs, shards, argv, checked, answer, raised>>
    /\ UNCHANGED tableVars

\* one round of the loop of copytree()
SyncCopy(n) ==
    /\ pc = "copy"
    /\ n \in todo
    /\ argv = "dry-run" \/ ~(dirs.src[n] = "dir" /\ DstKind(n) = "file")
    /\ written' = IF argv = "dry-run" THEN written
                  ELSE written \cup {<<"copy", n>>}
    /\ todo' = todo \ {n}
    /\ UNCHANGED <<pc, dirs, shards, argv, checked, answer, raised>>
    /\ UNCHANGED tableVars

\* shutil.copytree of a folder onto a file of DST raises FileExistsError
SyncCopyError(n) ==
    /\ pc = "copy"
    /\ n \in todo
    /\ argv # "dry-run"
    /\ dirs.src[n] = "dir" /\ DstKind(n) = "file"
    /\ pc' = "traceback"
    /\ raised' = [shard |-> n, why |-> "FileExistsError"]
    /\ UNCHANGED <<dirs, shards, argv, todo, checked, answer, written>>
    /\ UNCHANGED tableVars

\* the end of main()
SyncExit ==
    /\ pc = "copy"
    /\ todo = {}
    /\ pc' = "exit0"
    /\ UNCHANGED <<dirs, shards, argv, todo, checked, answer, written, raised>>
    /\ UNCHANGED tableVars

InitSync ==
    /\ IdleTables
    /\ pc = "start"
    /\ dirs \in [src : [SyncNames -> EntryKind], dst : [SyncNames -> EntryKind]]
    /\ shards = <<>>
    /\ argv \in {"none", "dry-run"}
    /\ todo = {}
    /\ checked = <<>>
    /\ answer = "none"
    /\ written = {}
    /\ raised = NoError

NextSync ==
    \/ SyncClear
    \/ \E n \in SyncNames : SyncCopy(n)
    \/ \E n \in SyncNames : SyncCopyError(n)
    \/ SyncExit

SpecSync == InitSync /\ [][NextSync]_vars

----------------------------------------------------------------------------
(* Properties of merge_tsv.py, stated on the last run: Ref is the reference *)
(* table, Cur the current table the run read, trgFile the merged table it   *)
(* wrote, removed the archived rows.                                        *)

Ref == enFile.rows
Cur == IF old.exists THEN old.rows ELSE <<>>
MergedRows == trgFile.rows

\* number of rows of table t with key k
Occurs(t, k) == Cardinality({i \in 1..Len(t) : t[i].key = k})

\* the TextClassifier rule of the specification
Untranslated(text, refText) == text = "" \/ text = refText
Translated(text, refText) == ~Untranslated(text, refText)

\* C1: merge is idempotent for all inputs: a second run with the same
\* reference on the merged output of the first run leaves the merged table
\* identical and archives no key.
C1_MergeIdempotent ==
    (op = "merge" /\ Runs >= 2) => (trgFile = old /\ removed = <<>>)

\* C2: merge preserves completed work: a keyed row of current whose text is
\* Translated against the reference text of its key keeps that text in merged
\* (it is the text of the key in merged when the key is unique on both sides).
C2_Preservation ==
    op = "merge" =>
        \A i \in 1..Len(Cur) : \A j \in 1..Len(Ref) :
            ( /\ ~IsBlank(Cur[i].key)
              /\ Ref[j].key = Cur[i].key
              /\ Translated(Cur[i].text, Ref[j].text) )
            => /\ \E m \in 1..Len(MergedRows) :
                    /\ MergedRows[m].key = Cur[i].key
                    /\ MergedRows[m].text = Cur[i].text
               /\ (Occurs(Cur, Cur[i].key) = 1 /\ Occurs(Ref, Cur[i].key) = 1)
                    => \A m \in 1..Len(MergedRows) :
                          MergedRows[m].key = Cur[i].key
                              => MergedRows[m].text = Cur[i].text

C2_Witness ==
    /\ op = "merge"
    /\ \E i \in 1..Len(Cur) : \E j \in 1..Len(Ref) :
          /\ Cur[i].key = "A" /\ Ref[j].key = "A"
          /\ Cur[i].text = "Salut" /\ Ref[j].text = "Hello"
    /\ \E m \in 1..Len(MergedRows) :
          MergedRows[m].key = "A" /\ MergedRows[m].text = "Salut"

\* C3: merge resets what is not completed work: a keyed reference row with no
\* row in current, or paired with a current row whose text is Untranslated,
\* has the reference text in merged; an absent or empty current yields the
\* keyed rows of the reference and an empty archive.
C3_Reset ==
    op = "merge" =>
        /\ \A j \in 1..Len(Ref) :
              ~IsBlank(Ref[j].key) =>
                /\ Occurs(Cur, Ref[j].key) = 0
                     => \E m \in 1..Len(MergedRows) :
                           /\ MergedRows[m].key = Ref[j].key
                           /\ MergedRows[m].text = Ref[j].text
                /\ \A i \in 1..Len(Cur) :
                     (Cur[i].key = Ref[j].key /\ Untranslated(Cur[i].text, Ref[j].text))
                     => /\ \E m \in 1..Len(MergedRows) :
                             /\ MergedRows[m].key = Ref[j].key
                             /\ MergedRows[m].text = Ref[j].text
                        /\ (Occurs(Cur, Ref[j].key) = 1 /\ Occurs(Ref, Ref[j].key) = 1)
                             => \A m \in 1..Len(MergedRows) :
                                   MergedRows[m].key = Ref[j].key
                                       => MergedRows[m].text = Ref[j].text
        /\ (\A i \in 1..Len(Cur) : IsBlank(Cur[i].key))
              => /\ MergedRows = SelectSeq(Ref, LAMBDA r : ~IsBlank(r.key))
                 /\ removed = <<>>
                 /\ (Runs = 1 => obsFile = Absent)

C3_Witness ==
    /\ op = "merge"
    /\ \E i \in 1..Len(Cur) : \E j \in 1..Len(Ref) :
          /\ Cur[i].key = "A" /\ Ref[j].key = "A"
          /\ Cur[i].text = "" /\ Ref[j].text = "Hello"
    /\ \E j \in 1..Len(Ref) : Ref[j].key = "B" /\ Occurs(Cur, "B") = 0
    /\ \E m \in 1..Len(MergedRows) :
          MergedRows[m].key = "A" /\ MergedRows[m].text = "Hello"

\* C4: after merge the non-empty keys of merged are exactly the non-empty
\* keys of the reference, whatever the current table held.
C4_KeySet ==
    op = "merge" =>
        {k \in KeySet(MergedRows) : ~IsBlank(k)} = {k \in KeySet(Ref) : ~IsBlank(k)}

C4_Witness ==
    /\ op = "merge"
    /\ "A" \in KeySet(Ref) /\ "A" \notin KeySet(Cur)
    /\ "B" \in KeySet(Cur) /\ "B" \notin KeySet(Ref)
    /\ KeySet(MergedRows) = {"A"}

\* C5: merge archives exactly the removed keys: the archived rows are the
\* keyed rows of current whose key does not occur in the reference, unchanged
\* and in their order in current; no key is both merged and archived.
C5_Archive ==
    op = "merge" =>
        /\ removed = SelectSeq(Cur, LAMBDA c : ~IsBlank(c.key)
                                  /\ \A j \in 1..Len(Ref) : Ref[j].key # c.key)
        /\ KeySet(removed) \cap KeySet(MergedRows) = {}
        /\ removed # <<>> => obsFile = File(removed)

C5_Witness ==
    /\ op = "merge"
    /\ Len(removed) = 2
    /\ removed[1].key = "B" /\ removed[2].key = "A"
    /\ removed[1].tooltip = "tip"
    /\ obsFile = File(removed)

----------------------------------------------------------------------------
(* Properties of merge_patch_translation.py, stated on the last run: Cur is *)
(* the current table the run read, trgFile the table it left.  Lookups by   *)
(* key follow the last-occurrence-wins policy over the keyed rows.          *)

RefTable == Keyed(enFile.rows)
CandTable == Keyed(patchFile.rows)
PatchedRows == trgFile.rows

\* Untranslated, for the row of a key: empty, or equal to the reference text
UntranslatedFor(text, k) ==
    text = "" \/ (HasKey(RefTable, k) /\ text = LastText(RefTable, k))

\* (a), (b) and (c) of the promotion precondition for a row of current
PromotionDue(row) ==
    /\ HasKey(CandTable, row.key) /\ LastText(CandTable, row.key) # ""
    /\ HasKey(RefTable, row.key)
          => LastText(CandTable, row.key) # LastText(RefTable, row.key)
    /\ UntranslatedFor(row.text, row.key)

PatchRan == op = "patch" /\ report # "skip"

\* C6: patch fill promotes a row of current (sets its text to the candidate
\* text of its key) if and only if the candidate has a non-empty text for the
\* key, that text differs from the reference text of the key, and the row's
\* text is empty or equal to the reference text; wherever the key stands in
\* the reference and candidate tables.
C6_PromotionRule ==
    PatchRan =>
        \A i \in 1..Len(Cur) :
            IF PromotionDue(Cur[i])
            THEN PatchedRows[i].text = LastText(CandTable, Cur[i].key)
            ELSE PatchedRows[i].text = Cur[i].text

\* C7: Scenario E: reference {A: Hello}, current {A: Hello}, candidate
\* {A: Salut} gives current {A: Salut} and a promoted count of 1.
C7_ScenarioE ==
    ( /\ PatchRan
      /\ Len(enFile.rows) = 1 /\ Len(Cur) = 1 /\ Len(patchFile.rows) = 1
      /\ enFile.rows[1].key = "A" /\ enFile.rows[1].text = "Hello"
      /\ Cur[1].key = "A" /\ Cur[1].text = "Hello"
      /\ patchFile.rows[1].key = "A" /\ patchFile.rows[1].text = "Salut" )
    => /\ Len(PatchedRows) = 1
       /\ PatchedRows[1].key = "A" /\ PatchedRows[1].text = "Salut"
       /\ stats.updated = 1

\* C8: patch fill changes nothing but the text of Untranslated rows: a
\* Translated row keeps its text, no promoted row ends up Untranslated, the
\* rows of current keep their number, order, keys and tooltips, and the
\* reference and candidate files are never written.
C8_PatchFrame ==
    [][ op' = "patch" =>
          /\ enFile' = enFile
          /\ patchFile' = patchFile
          /\ trgFile'.exists = trgFile.exists
          /\ Len(trgFile'.rows) = Len(trgFile.rows)
          /\ \A i \in 1..Len(trgFile.rows) :
                LET before == trgFile.rows[i]
                    after == trgFile'.rows[i]
                IN  /\ after.key = before.key
                    /\ after.tooltip = before.tooltip
                    /\ ~UntranslatedFor(before.text, before.key)
                          => after.text = before.text
                    /\ after.text # before.text
                          => ~UntranslatedFor(after.text, before.key)
      ]_vars

\* C9: the count reported by patch fill is the number of keys whose
\* classification against the reference goes from Untranslated before the
\* run to Translated after it.
C9_PromotedCount ==
    PatchRan =>
        stats.updated =
            Cardinality({k \in KeySet(Cur) :
                \E i \in 1..Len(Cur) :
                    /\ Cur[i].key = k
                    /\ UntranslatedFor(Cur[i].text, k)
                    /\ ~UntranslatedFor(PatchedRows[i].text, k)})

----------------------------------------------------------------------------
(* Properties of split_loc_master.py *)

\* a run of process() that went through: it printed one of its two lines
SplitCompleted == op = "split" /\ report \in {"updated", "noupdate"}

SplitBefore == StartTable(enFile, old)
SplitAfter == locFile.rows

\* the reference shard's text for key k, "" when the shard has no such key
RefTextFor(k) == IF HasKey(enFile.rows, k) THEN LastText(enFile.rows, k) ELSE ""

\* the documented split rule for a row whose key is k
SplitDue(row) ==
    LET k == row.key
    IN  /\ HasKey(masterFile.rows, k) /\ LastText(masterFile.rows, k) # ""
        /\ LastText(masterFile.rows, k) # RefTextFor(k)
        /\ (row.text = "" \/ row.text = RefTextFor(k))

\* C11: a split run that found its master changes a cell only as the rule
\* allows: an editable row takes the master text iff the master has a
\* non-empty text for its key, that text differs from the reference shard's
\* text for that key, and the row's text is empty or equal to the
\* reference shard's text for that key; every other text, every key and
\* every tooltip stay as they were, whatever the order or number of rows of
\* the prior output.
C11_SplitRule ==
    (op = "split" /\ report # "fatal") =>
        /\ Len(SplitAfter) = Len(SplitBefore)
        /\ \A i \in 1..Len(SplitBefore) :
              /\ SplitAfter[i].key = SplitBefore[i].key
              /\ SplitAfter[i].tooltip = SplitBefore[i].tooltip
              /\ SplitAfter[i].text =
                    IF Editable(SplitBefore[i]) /\ SplitDue(SplitBefore[i])
                    THEN LastText(masterFile.rows, SplitBefore[i].key)
                    ELSE SplitBefore[i].text


----------------------------------------------------------------------------
(* Properties of the batch of split_loc_master.py *)

SplitEnded == pc \in {"exit0", "traceback"}
HasOutput(s) == shards[s].loc # "none" \/ <<"loc", s>> \in written

\* C12: first seed: a split run that found its master writes the output
\* shard of every shard of the reference directory that had no prior
\* output, also when no row is updated; after the run every reference shard
\* has an output shard.
C12_FirstSeed ==
    SplitEnded =>
        \A s \in Shards :
            shards[s].en =>
                /\ shards[s].loc = "none" => <<"loc", s>> \in written
                /\ HasOutput(s)


----------------------------------------------------------------------------
(* Properties of validation *)

Validated == op \in {"validate", "check"}
ValTable == trgFile.rows
Reported(k) == \E n \in 1..Len(findings.dupKeys) : findings.dupKeys[n] = k
ListedRows == {findings.emptyRows[n] : n \in 1..Len(findings.emptyRows)}

\* C13: validation reports a duplicate-key finding for key k iff k is not
\* blank and stands in more than one row, and reports each such key once;
\* the empty-key finding lists exactly the rows whose key is blank; blank
\* keys are never reported as duplicates of each other; a table with
\* duplicates still gets its complete findings.
C13_Findings ==
    Validated =>
        /\ \A k \in Keys \cup {"", " "} :
              Reported(k) <=> (~IsBlank(k) /\ Occurs(ValTable, k) > 1)
        /\ \A m, n \in 1..Len(findings.dupKeys) :
              m # n => findings.dupKeys[m] # findings.dupKeys[n]
        /\ ListedRows = {i + 1 : i \in {j \in 1..Len(ValTable) : IsBlank(ValTable[j].key)}}
        /\ Len(findings.emptyRows) = Cardinality(ListedRows)
        /\ \A k \in {"", " "} : ~Reported(k)

C13_Witness ==
    /\ Validated
    /\ Occurs(ValTable, "") = 2
    /\ Occurs(ValTable, "A") = 2
    /\ findings.dupKeys = <<"A">>
    /\ Len(findings.emptyRows) = 2


----------------------------------------------------------------------------
(* Properties of the batch of merge_tsv.py *)

BothChecked == checked.src # "unknown" /\ checked.trg # "unknown"
AllValid == checked.src = "valid" /\ checked.trg = "valid"
SaidYes == answer \in {"y", "yes"}
SaidNo == answer \in {"n", "no"}
Merging == pc \in {"loop", "archive", "exit0"}

\* C14: both directories are validated before any file is written; when a
\* table fails validation the batch prompts, and prompts again after every
\* answer that is neither yes nor no; on no the run ends with status 1 and
\* has written nothing; merging starts only when all tables are valid or
\* the answer was yes.
C14_ValidateFirst ==
    /\ [](/\ (written # {} \/ Merging) => (BothChecked /\ (AllValid \/ SaidYes))
          /\ pc = "prompt" => (BothChecked /\ ~AllValid /\ written = {})
          /\ pc = "exit1" => (SaidNo /\ written = {}))
    /\ [][/\ (pc = "validate_trg" /\ ~(checked'.src = "valid" /\ checked'.trg = "valid"))
                => pc' = "prompt"
          /\ (pc = "prompt" /\ answer' # answer /\ ~SaidYes' /\ ~SaidNo')
                => pc' = "prompt"
          /\ (pc = "prompt" /\ pc' = "exit1") => SaidNo'
          /\ (pc = "prompt" /\ pc' = "loop") => SaidYes']_vars

C14_Witness ==
    /\ pc = "exit0"
    /\ checked.src = "invalid"
    /\ answer = "yes"
    /\ <<"trg", "s1">> \in written
    /\ <<"trg", "s2">> \in written

\* C19 as claimed: when the reference or the current directory does not
\* exist at the start of a merge batch, the run ends as a fatal error and
\* nothing is written or created.
C19_MissingDirFatal ==
    (~dirs.src \/ ~dirs.trg) => (written = {} /\ ~Merging)

\* C19 as the code has it: a missing directory passes validation with a
\* warning and is never the cause of an error.  Without the reference
\* directory nothing is written or created; without the current directory
\* the run creates it and writes the merged shard of every reference shard.
C19_MissingDir ==
    /\ ~dirs.src => /\ checked.src # "invalid"
                    /\ written = {}
                    /\ raised.why \in {"none", "EOFError"}
    /\ ~dirs.trg => checked.trg # "invalid"
    /\ (~dirs.src /\ ~dirs.trg) => pc \in {"start", "validate_trg", "loop", "exit0"}
    /\ (dirs.src /\ ~dirs.trg /\ pc = "exit0") =>
          \A s \in SrcFiles(shards) :
              <<"trg", s>> \in written /\ <<"dir", "trg">> \in written

C19_Witness ==
    /\ dirs.src /\ ~dirs.trg
    /\ pc = "exit0"
    /\ SrcFiles(shards) = Shards
    /\ written = {<<"dir", "trg">>, <<"trg", "s1">>, <<"trg", "s2">>}

\* C20: an error while reading or writing one shard does not end the batch:
\* the shard is skipped and every remaining shard is still processed.
C20_ErrorSkipsShard ==
    raised.why \in {"read", "write"} =>
        /\ Merging
        /\ pc = "exit0" =>
              \A s \in SrcFiles(shards) \ {raised.shard} : <<"trg", s>> \in written


----------------------------------------------------------------------------
(* Properties of merge runs over a changing reference.  In a merge step    *)
(* taken right after an upstream edit, old is the reference the previous   *)
(* run read, enFile the new reference, trgFile the current table (the      *)
(* previous run's merged table) and trgFile' the merged table.             *)

TextOf(t, k) == LastText(t, k)
OnceIn(t, k) == Occurs(t, k) = 1

\* C15: stale text is refreshed: a key k whose current text after a merge
\* run equals the reference text r1, and whose reference text upstream then
\* changed to r2 # r1, has text r2 in the merged table of the next run.
C15_StaleRefreshed ==
    [][(op = "upstream" /\ op' = "merge") =>
          \A k \in Keys :
              ( /\ OnceIn(old.rows, k) /\ OnceIn(enFile.rows, k)
                /\ OnceIn(trgFile.rows, k)
                /\ TextOf(trgFile.rows, k) = TextOf(old.rows, k)
                /\ TextOf(enFile.rows, k) # TextOf(old.rows, k) )
              => TextOf(trgFile'.rows, k) = TextOf(enFile.rows, k)]_vars


\* C16 as claimed: after any sequence of merge runs the archive table holds
\* exactly the rows removed by the most recent run, and nothing once a run
\* has removed no key.
C16_ArchiveOfLastRun ==
    Runs >= 1 => obsFile.rows = removed

\* C16 as the code has it: a run that removes rows overwrites the archive
\* with exactly those rows (the archive is not cumulative); a run that
\* removes no row leaves the archive file as it was, so the archive holds
\* the rows removed by the most recent run that removed any.
C16_ArchiveOverwritten ==
    [][(op' = "merge" /\ log' # log) =>
          /\ removed' # <<>> => obsFile' = File(removed')
          /\ removed' = <<>> => obsFile' = obsFile]_vars

C16_Witness ==
    /\ op = "merge" /\ Runs = 2
    /\ log[1].stats.removed = 1
    /\ log[2].stats.removed = 0
    /\ removed = <<>>
    /\ obsFile.exists /\ Len(obsFile.rows) = 1

\* C17: blank-key rows pass through merge: every reference row with a
\* blank key stands in merged, verbatim and at its position, and no blank
\* row of current is dropped without standing in merged or in the archive.
C17_BlankRowsPass ==
    op = "merge" =>
        /\ \A i \in 1..Len(Ref) :
              IsBlank(Ref[i].key) =>
                  i <= Len(MergedRows) /\ MergedRows[i] = Ref[i]
        /\ \A i \in 1..Len(Cur) :
              IsBlank(Cur[i].key) =>
                  \/ \E m \in 1..Len(MergedRows) : MergedRows[m] = Cur[i]
                  \/ \E m \in 1..Len(removed) : removed[m] = Cur[i]

----------------------------------------------------------------------------
(* Properties of the three reconciliation programs together.  Cur is the  *)
(* target table the last run read (empty when it did not exist), Out the   *)
(* target table after the run.                                             *)

Reconciled == op \in {"merge", "patch", "split"}
Out == IF op = "split" THEN locFile.rows ELSE trgFile.rows
AllKeys == Keys \cup {"", " ", "#Loc;1"}
TipOf(t, k) == t[CHOOSE i \in 1..Len(t) : t[i].key = k].tooltip

\* C18 as claimed: merge, patch fill and split alter no tooltip: a key that
\* current held before the run and that the output still holds has, in the
\* output, the tooltip current held for it.
C18_TooltipKept ==
    Reconciled =>
        \A k \in AllKeys :
            (OnceIn(Cur, k) /\ OnceIn(Out, k)) => TipOf(Out, k) = TipOf(Cur, k)

\* C18 as the code has it: patch fill and split leave every key and every
\* tooltip of the target table as they were (a split without prior output
\* takes them from the reference shard); merge takes the tooltip of every
\* merged row from the reference row it is built from, not from current.
C18_TooltipSource ==
    /\ (op \in {"patch", "split"} /\ old.exists) =>
          /\ Len(Out) = Len(Cur)
          /\ \A i \in 1..Len(Cur) :
                Out[i].key = Cur[i].key /\ Out[i].tooltip = Cur[i].tooltip
    /\ (op = "split" /\ ~old.exists /\ locFile.exists) =>
          /\ Len(Out) = Len(enFile.rows)
          /\ \A i \in 1..Len(Out) :
                /\ Out[i].key = enFile.rows[i].key
                /\ Out[i].tooltip = enFile.rows[i].tooltip
    /\ op = "merge" =>
          /\ \A m \in 1..Len(Out) : \E j \in 1..Len(Ref) :
                Out[m].key = Ref[j].key /\ Out[m].tooltip = Ref[j].tooltip
          /\ \A k \in AllKeys :
                (OnceIn(Ref, k) /\ OnceIn(Out, k)) => TipOf(Out, k) = TipOf(Ref, k)

C18_Witness ==
    /\ op = "merge"
    /\ OnceIn(Cur, "A") /\ OnceIn(Ref, "A") /\ OnceIn(Out, "A")
    /\ TipOf(Cur, "A") = "tip"
    /\ TipOf(Ref, "A") = ""
    /\ TipOf(Out, "A") = ""


----------------------------------------------------------------------------
(* Further properties of merge_tsv.py on one shard *)

\* C22: the merged table lists every non-blank reference key exactly once,
\* in the reference's row order, whatever the order of the current table
\* and also when the current table or the reference holds a key twice.
C22_KeysOnceInOrder ==
    op = "merge" => KeyColumn(MergedRows) = Unique(KeyColumn(Keyed(Ref)))


----------------------------------------------------------------------------
(* Duplicate keys in the lookup tables: the current table of merge, the     *)
(* reference and candidate tables of patch fill, the master of split.       *)

\* table t with, of every key, only its last row
LastOnly(t) ==
    Pick(t, SelectSeq(Indices(Len(t)),
                      LAMBDA i : \A j \in (i + 1)..Len(t) : t[j].key # t[i].key))

\* C24: merge, patch fill and split resolve a key that stands in several
\* rows of a lookup table by its last row: the run's output is the output
\* for the lookup table reduced to the last row of every key.
C24_LastOccurrenceWins ==
    /\ op = "merge" =>
          MergedRows = Merged(Keyed(Ref), Keyed(LastOnly(Cur)))
    /\ (op = "patch" /\ report # "skip") =>
          trgFile.rows = Patched(Cur, SubTable(LastOnly(enFile.rows)),
                                 SubTable(LastOnly(patchFile.rows)))
    /\ (op = "split" /\ report \in {"updated", "noupdate"}) =>
          locFile.rows = SplitTable(enFile.rows, LastOnly(masterFile.rows),
                                    StartTable(enFile, old))


----------------------------------------------------------------------------
(* Further properties of merge_patch_translation.py *)

\* C25: patch fill tells a key without a reference row from a key with an
\* empty reference text: a keyed row of current whose key stands in no row
\* of the reference is not promoted for having an empty text.
C25_AbsentIsNotEmpty ==
    PatchRan =>
        \A i \in 1..Len(Cur) :
            ( /\ ~IsBlank(Cur[i].key)
              /\ ~HasKey(enFile.rows, Cur[i].key)
              /\ Cur[i].text = "" )
            => PatchedRows[i].text = ""


\* C28: patch fill is idempotent: a second application, with the same
\* reference and candidate tables, to the current table the first one left
\* promotes no row and does not rewrite the current file.
C28_PatchIdempotent ==
    [][(PatchRan /\ op' = "patch") =>
          /\ stats'.updated = 0
          /\ wrote' = FALSE
          /\ trgFile' = trgFile]_vars

C28_Witness ==
    /\ op = "patch" /\ Runs = 2
    /\ log[1].report = "updated" /\ log[1].stats.updated = 1
    /\ log[2].report = "none" /\ log[2].stats.updated = 0
    /\ ~wrote
    /\ trgFile = old
    /\ HasKey(SubTable(enFile.rows), "A")
    /\ \E i \in 1..Len(trgFile.rows) :
          trgFile.rows[i].key = "A" /\ trgFile.rows[i].text = "Salut"


----------------------------------------------------------------------------
(* Properties of sync_translation.py *)

Touched(n) == <<"rmtree", n>> \in written \/ <<"copy", n>> \in written

\* C21: the sync deletes or changes no entry of DST that is not copied from
\* the source: an entry without a source entry of its name is untouched, an
\* entry whose name is ignored is untouched also when the source has an
\* entry of that name, and a dry run deletes and writes nothing.
C21_SyncFrame ==
    /\ argv = "dry-run" => written = {}
    /\ \A n \in SyncNames :
          (dirs.src[n] = "none" \/ ShouldIgnore(n)) => ~Touched(n)


----------------------------------------------------------------------------
(* Properties of the two file writes of a merged shard *)

\* C26: merging a shard is all-or-nothing: in every state of a run, also
\* after an abort between the two writes, a shard whose merged file is
\* written and which lost keys has its archive written, so that no removed
\* key is gone from the current file without standing in the archive.
C26_ArchiveBeforeRemoval ==
    \A s \in Shards :
        (<<"trg", s>> \in written /\ shards[s].rem) => <<"obs", s>> \in written


----------------------------------------------------------------------------
(* Properties of the column check of the merge batch *)

BadColumns(kind) == kind \in {"wide", "nokey"}

\* the column list of a file the merge has written
WrittenColumns(f) ==
    IF f[1] = "trg" THEN SrcColumns(shards[f[2]]) ELSE TrgColumns(shards[f[2]])

\* C23: a table whose column list is not exactly key, text, tooltip is never
\* reconciled: whatever the user answers, no merged shard and no archive is
\* written for it, and every file the merge writes has exactly the columns
\* key, text, tooltip in that order.
C23_BadColumnsNotMerged ==
    /\ \A s \in Shards :
          (BadColumns(shards[s].src) \/ BadColumns(shards[s].trg))
          => (<<"trg", s>> \notin written /\ <<"obs", s>> \notin written)
    /\ \A f \in written : f[1] \in {"trg", "obs"} => WrittenColumns(f) = RequiredCols


----------------------------------------------------------------------------
(* Properties of the validation run *)

FailPrinted == \E i \in 1..Len(checked.printed) : checked.printed[i] = "fail"

\* C27: in a validation run the recorded severity never decreases: once an
\* error has been recorded for any file the exit code stays that of an
\* error and the summary reports errors, whatever the order of the files
\* and whatever warnings are found afterwards.
C27_SeverityKept ==
    /\ FailPrinted => checked.code = 1
    /\ (pc = "exit0" /\ FailPrinted) => answer = "errors"


====
